---- MODULE Spec2Model ----
(***************************************************************************)
(* Model of the booking core of theatre-api: the Ticket / Reservation /    *)
(* Performance / TheatreHall tables (theatre/models.py), the reservation   *)
(* endpoint (theatre/serializers.py, theatre/views.py) and the catalog     *)
(* endpoints that change what tickets refer to (theatre/views.py).          *)
(*                                                                         *)
(* The datastore is modelled as committed tables plus, per request, the    *)
(* rows its open transaction has written and not yet committed.  Reads see *)
(* committed rows and the reader's own uncommitted rows.  A unique index   *)
(* arbitrates concurrent inserts of one key: the later insert waits for    *)
(* the earlier transaction to end, and a cycle of waiting transactions is  *)
(* broken by ending one of them.  Foreign keys are checked at commit.      *)
(*                                                                         *)
(* A request is one call of POST reservations/; the id of the Reservation  *)
(* it writes is the number of the request.                                 *)
(*                                                                         *)
(* The other endpoints are modelled as one step each: the permission       *)
(* classes of the viewset decide whether the handler runs, and the         *)
(* response of the step is kept in resp until the next step.               *)
(***************************************************************************)
EXTENDS Integers, Sequences, FiniteSets, TLC

(* ---------------------------------------------------------------------- *)
(* Bounds of the model                                                      *)
(* ---------------------------------------------------------------------- *)
NumReq == 2
MaxBatch == 2
MaxRow == 2
MaxSeat == 1
MaxShortBatch == 1
MaxCatalogOps == 1
MaxParamLen == 3

Requests == 1..NumReq
Users == {"alice", "bob"}
HallIds == {1, 2}
PlayIds == {1, 2}
ActorIds == {1, 2}
GenreIds == {1, 2}
PerfIds == {1, 2}
\* PositiveIntegerField (models.py:107-108, 12-13) accepts 0 and upwards.
Rows == 0..MaxRow
Seats == 1..MaxSeat

NoRow == [absent |-> TRUE]
NoListing == [served |-> FALSE, rows |-> {}]
NoResp == [served |-> FALSE, view |-> "", action |-> "", user |-> "",
           status |-> "", body |-> {}]

(* No query parameter is given (a parameter given empty counts as absent). *)
NoQuery == [title |-> <<>>, actors |-> <<>>, genres |-> <<>>]

(* One entry of the "tickets" list of a reservation request. *)
TicketReqs == [row : Rows, seat : Seats, performance : PerfIds]

RECURSIVE SeqsUpTo(_, _)
SeqsUpTo(S, n) ==
    IF n = 0 THEN {<<>>}
    ELSE LET shorter == SeqsUpTo(S, n - 1)
         IN  shorter \cup {Append(s, x) : s \in {q \in shorter : Len(q) = n - 1}, x \in S}

Batches == SeqsUpTo(TicketReqs, MaxBatch)
ShortBatches == SeqsUpTo(TicketReqs, MaxShortBatch)

VARIABLES
    halls,          \* TheatreHall table: id -> [rows, seats_in_row] or NoRow
    plays,          \* Play table: id -> [title, actors, genres] or NoRow
    performances,   \* Performance table: id -> [play, theatre_hall] or NoRow
    reservations,   \* committed Reservation rows [id, user]
    tickets,        \* committed Ticket rows [row, seat, performance, reservation]
    pc,             \* per request: position in the handler
    user,           \* per request: request.user
    batch,          \* per request: the submitted ticket list
    idx,            \* per request: index of the ticket being processed
    errs,           \* per request: per-ticket outcome of serializer validation
    snap,           \* per request: theatre hall object cached on each validated performance
    txRes,          \* per request: Reservation row written in the open transaction
    txTickets,      \* per request: Ticket rows written in the open transaction
    result,         \* per request: "none" while running, then "ok" or "error"
    errors,         \* per request: the errors the call reported
    listing,        \* body of the performance listing served by the last step, if any
    ops,            \* number of catalog writes so far
    vIn,            \* arguments of the last validate_ticket call
    vOut,           \* its outcome
    query,          \* query parameters of the request for the plays listing
    resp            \* the response served by the last step, if any

dbVars == <<halls, plays, performances, reservations, tickets>>
reqVars == <<pc, user, batch, idx, errs, snap, txRes, txTickets, result, errors>>
valVars == <<vIn, vOut, query>>
vars == <<halls, plays, performances, reservations, tickets,
          pc, user, batch, idx, errs, snap, txRes, txTickets, result, errors,
          listing, ops, vIn, vOut, query, resp>>

(* ---------------------------------------------------------------------- *)
(* theatre/models.py                                                        *)
(* ---------------------------------------------------------------------- *)

(* Ticket.validate_ticket: the attributes are checked in the order row,    *)
(* seat; the first one with "not attr_value <= max_value" raises.  The     *)
(* result is the attr_name of the raised message, or "ok".                 *)
RECURSIVE validate_attrs(_)
validate_attrs(checks) ==
    IF checks = <<>> THEN "ok"
    ELSE LET attr_name == Head(checks)[1]
             attr_value == Head(checks)[2]
             max_value == Head(checks)[3]
         IN  IF ~(attr_value <= max_value) THEN attr_name
             ELSE validate_attrs(Tail(checks))

(* validate_ticket with the seat compared to the number of rows. *)
validate_ticket_rows_twice(row, seat, theatre_hall) ==
    validate_attrs(<<
        <<"row", row, theatre_hall.rows>>,
        <<"seat", seat, theatre_hall.rows>>
    >>)

validate_ticket(row, seat, theatre_hall) ==
    validate_attrs(<<
        <<"row", row, theatre_hall.rows>>,
        <<"seat", seat, theatre_hall.seats_in_row>>
    >>)

(* Ticket.Meta.unique_together = ("performance", "row", "seat") *)
unique_together(t) == <<t.performance, t.row, t.seat>>

(* Rows of `rows` that hold the key of ticket t. *)
SameKey(rows, t) == {x \in rows : unique_together(x) = unique_together(t)}

(* The ticket is built with row and seat exchanged. *)
Ticket_swapped(req, r) ==
    [row |-> req.seat, seat |-> req.row,
     performance |-> req.performance, reservation |-> r]

(* Ticket.objects.create(reservation=reservation, **ticket_data) *)
Ticket(req, r) ==
    [row |-> req.row, seat |-> req.seat,
     performance |-> req.performance, reservation |-> r]

(* The plays of the seeded catalog: a title, the ids of the actors and the *)
(* ids of the genres.  A title is a sequence of characters.                *)
SeedPlay(pl) ==
    IF pl = 1 THEN [title |-> <<"A", "b">>, actors |-> {1, 2}, genres |-> {1}]
    ELSE [title |-> <<"b">>, actors |-> {2}, genres |-> {1, 2}]

(* ---------------------------------------------------------------------- *)
(* theatre/serializers.py: validation of a reservation request             *)
(* ---------------------------------------------------------------------- *)

(* TicketSerializer without the unique-together validator. *)
TicketSerializer_validate_no_unique(t) ==
    IF performances[t.performance] = NoRow THEN "PerformanceNotFound"
    ELSE IF validate_ticket(t.row, t.seat,
                halls[performances[t.performance].theatre_hall]) # "ok"
         THEN "SeatOutOfRange"
    ELSE "ok"

(* TicketSerializer on one entry of the list, against the committed rows.  *)
(* The relation field resolves the performance; the unique-together        *)
(* validator the model serializer derives from Ticket.Meta runs next; then *)
(* TicketSerializer.validate calls validate_ticket with the hall of the    *)
(* performance.  The first failure is the entry's error.                   *)
TicketSerializer_validate(t) ==
    IF performances[t.performance] = NoRow THEN "PerformanceNotFound"
    ELSE IF SameKey(tickets, t) # {} THEN "SeatAlreadyTaken"
    ELSE IF validate_ticket(t.row, t.seat,
                halls[performances[t.performance].theatre_hall]) # "ok"
         THEN "SeatOutOfRange"
    ELSE "ok"

(* The hall object that stays cached on the performance instance held in   *)
(* validated_data (attrs["performance"].theatre_hall).                     *)
CachedHall(t) ==
    IF performances[t.performance] = NoRow THEN NoRow
    ELSE halls[performances[t.performance].theatre_hall]

(* Only the first failing entry is reported. *)
ListErrors_first(es) ==
    LET failing == {i \in 1..Len(es) : es[i] # "ok"}
    IN  IF failing = {} THEN {}
        ELSE {es[CHOOSE i \in failing : \A j \in failing : i <= j]}

(* The errors of a validated list: is_valid fails when there is any. *)
ListErrors(es) == {es[i] : i \in 1..Len(es)} \ {"ok"}

(* The tickets field declared without allow_empty=False. *)
allow_empty_default == TRUE

(* ReservationSerializer.tickets is declared with allow_empty=False. *)
allow_empty == FALSE

(* ---------------------------------------------------------------------- *)
(* The datastore                                                            *)
(* ---------------------------------------------------------------------- *)

InFlight(r) == pc[r] \in {"clean", "insert", "commit"}

(* The open transaction that holds the key of ticket t uncommitted.        *)
Holders(r, t) ==
    {o \in Requests \ {r} : InFlight(o) /\ SameKey(txTickets[o], t) # {}}

(* The tickets table without the unique index: every insert goes through. *)
UniqueIndex_absent(r, t) == "free"

(* The unique index Meta.unique_together puts on the tickets table, as the *)
(* insert of t by r meets it: the key is in a row r can see ("conflict"),  *)
(* in a row of another open transaction ("wait"), or in none ("free").     *)
UniqueIndex(r, t) ==
    IF SameKey(tickets \cup txTickets[r], t) # {} THEN "conflict"
    ELSE IF Holders(r, t) # {} THEN "wait"
    ELSE "free"

(* r waits on the unique index for the transaction of some holder. *)
Waiting(r) ==
    /\ pc[r] = "insert"
    /\ UniqueIndex(r, Ticket(batch[r][idx[r]], r)) = "wait"

WaitsFor(r) ==
    IF Waiting(r) THEN Holders(r, Ticket(batch[r][idx[r]], r)) ELSE {}

RECURSIVE ReachableFrom(_, _)
ReachableFrom(S, n) ==
    IF n = 0 THEN S
    ELSE ReachableFrom(S \cup UNION {WaitsFor(o) : o \in S}, n - 1)

InWaitCycle(r) == Waiting(r) /\ r \in ReachableFrom(WaitsFor(r), NumReq)

(* The exception leaves create() without transaction.atomic(): every row   *)
(* written so far stays.                                                   *)
Rollback_autocommit(r, error) ==
    /\ reservations' = reservations \cup
            (IF txRes[r] THEN {[id |-> r, user |-> user[r]]} ELSE {})
    /\ tickets' = tickets \cup txTickets[r]
    /\ txRes' = [txRes EXCEPT ![r] = FALSE]
    /\ txTickets' = [txTickets EXCEPT ![r] = {}]
    /\ pc' = [pc EXCEPT ![r] = "done"]
    /\ result' = [result EXCEPT ![r] = "error"]
    /\ errors' = [errors EXCEPT ![r] = {error}]

(* Leaving "with transaction.atomic()" by an exception: the rows written   *)
(* in the transaction are discarded.                                       *)
Rollback(r, error) ==
    /\ txRes' = [txRes EXCEPT ![r] = FALSE]
    /\ txTickets' = [txTickets EXCEPT ![r] = {}]
    /\ pc' = [pc EXCEPT ![r] = "done"]
    /\ result' = [result EXCEPT ![r] = "error"]
    /\ errors' = [errors EXCEPT ![r] = {error}]
    /\ UNCHANGED <<reservations, tickets>>

(* ---------------------------------------------------------------------- *)
(* POST reservations/                                                       *)
(* ---------------------------------------------------------------------- *)

(* An authenticated user posts a ticket list. *)
Submit(r, u, b) ==
    /\ pc[r] = "idle"
    /\ \A o \in Requests : o < r => pc[o] # "idle"
    /\ pc' = [pc EXCEPT ![r] = "validate"]
    /\ user' = [user EXCEPT ![r] = u]
    /\ batch' = [batch EXCEPT ![r] = b]
    /\ idx' = [idx EXCEPT ![r] = 1]
    /\ listing' = NoListing /\ resp' = NoResp
    /\ UNCHANGED <<dbVars, errs, snap, txRes, txTickets, result, errors, ops, valVars>>

(* serializer.is_valid: allow_empty=False rejects an empty list; otherwise *)
(* the entries are validated one by one, every entry is validated, and the *)
(* request is rejected when any of them has an error.                      *)
Validate(r) ==
    /\ pc[r] = "validate"
    /\ listing' = NoListing /\ resp' = NoResp
    /\ IF Len(batch[r]) = 0
       THEN /\ IF ~allow_empty
               THEN /\ pc' = [pc EXCEPT ![r] = "done"]
                    /\ result' = [result EXCEPT ![r] = "error"]
                    /\ errors' = [errors EXCEPT ![r] = {"EmptyRequest"}]
               ELSE /\ pc' = [pc EXCEPT ![r] = "create"]
                    /\ UNCHANGED <<result, errors>>
            /\ UNCHANGED <<idx, errs, snap>>
       ELSE LET t == batch[r][idx[r]]
                es == Append(errs[r], TicketSerializer_validate(t))
                last == idx[r] = Len(batch[r])
            IN  /\ errs' = [errs EXCEPT ![r] = es]
                /\ snap' = [snap EXCEPT ![r] = Append(snap[r], CachedHall(t))]
                /\ IF ~last
                   THEN /\ idx' = [idx EXCEPT ![r] = idx[r] + 1]
                        /\ UNCHANGED <<pc, result, errors>>
                   ELSE IF ListErrors(es) # {}
                   THEN /\ pc' = [pc EXCEPT ![r] = "done"]
                        /\ result' = [result EXCEPT ![r] = "error"]
                        /\ errors' = [errors EXCEPT ![r] = ListErrors(es)]
                        /\ UNCHANGED idx
                   ELSE /\ pc' = [pc EXCEPT ![r] = "create"]
                        /\ UNCHANGED <<idx, result, errors>>
    /\ UNCHANGED <<dbVars, user, batch, txRes, txTickets, ops, valVars>>

(* ReservationSerializer.create, first part: the transaction opens and the *)
(* Reservation row is written with user=request.user.                      *)
CreateReservation(r) ==
    /\ pc[r] = "create"
    /\ txRes' = [txRes EXCEPT ![r] = TRUE]
    /\ idx' = [idx EXCEPT ![r] = 1]
    /\ pc' = [pc EXCEPT ![r] = IF Len(batch[r]) = 0 THEN "commit" ELSE "clean"]
    /\ listing' = NoListing /\ resp' = NoResp
    /\ UNCHANGED <<dbVars, user, batch, errs, snap, txTickets, result, errors, ops, valVars>>

(* Ticket.save, first part: full_clean.  clean_fields checks that the      *)
(* referenced performance exists; clean calls validate_ticket with the     *)
(* cached hall; validate_unique queries for a row with the same key.       *)
full_clean(r) ==
    LET t == Ticket(batch[r][idx[r]], r)
    IN  IF performances[t.performance] = NoRow THEN "PerformanceNotFound"
        ELSE IF validate_ticket(t.row, t.seat, snap[r][idx[r]]) # "ok"
             THEN "SeatOutOfRange"
        ELSE IF SameKey(tickets \cup txTickets[r], t) # {} THEN "SeatAlreadyTaken"
        ELSE "ok"

FullClean(r) ==
    /\ pc[r] = "clean"
    /\ listing' = NoListing /\ resp' = NoResp
    /\ IF full_clean(r) = "ok"
       THEN /\ pc' = [pc EXCEPT ![r] = "insert"]
            /\ UNCHANGED <<txRes, txTickets, result, errors, reservations, tickets>>
       ELSE Rollback(r, full_clean(r))
    /\ UNCHANGED <<halls, plays, performances, user, batch, idx, errs, snap, ops, valVars>>

(* Ticket.save, second part: the INSERT.  The unique index is enforced by  *)
(* the datastore; an insert whose key another open transaction holds waits *)
(* until that transaction ends.                                            *)
insert_error(r) ==
    LET t == Ticket(batch[r][idx[r]], r)
    IN  IF UniqueIndex(r, t) = "conflict" THEN "SeatAlreadyTaken"
        ELSE "ok"

Insert(r) ==
    /\ pc[r] = "insert"
    /\ ~Waiting(r)
    /\ listing' = NoListing /\ resp' = NoResp
    /\ IF insert_error(r) = "ok"
       THEN /\ txTickets' = [txTickets EXCEPT
                                ![r] = @ \cup {Ticket(batch[r][idx[r]], r)}]
            /\ IF idx[r] = Len(batch[r])
               THEN /\ pc' = [pc EXCEPT ![r] = "commit"]
                    /\ UNCHANGED idx
               ELSE /\ pc' = [pc EXCEPT ![r] = "clean"]
                    /\ idx' = [idx EXCEPT ![r] = idx[r] + 1]
            /\ UNCHANGED <<txRes, result, errors, reservations, tickets>>
       ELSE /\ Rollback(r, insert_error(r))
            /\ UNCHANGED idx
    /\ UNCHANGED <<halls, plays, performances, user, batch, errs, snap, ops, valVars>>

(* Two transactions each wait for a key the other holds: the datastore     *)
(* ends one of them with an error, which rolls it back.                    *)
DeadlockAbort(r) ==
    /\ InWaitCycle(r)
    /\ Rollback(r, "Deadlock")
    /\ listing' = NoListing /\ resp' = NoResp
    /\ UNCHANGED <<halls, plays, performances, user, batch, idx, errs, snap, ops, valVars>>

(* Leaving "with transaction.atomic()" normally.  The foreign keys of the  *)
(* written tickets are checked as the transaction commits: a ticket whose  *)
(* performance was deleted meanwhile fails the commit, which rolls back.   *)
DanglingTickets(r) ==
    {t \in txTickets[r] : performances[t.performance] = NoRow}

Commit(r) ==
    /\ pc[r] = "commit"
    /\ listing' = NoListing /\ resp' = NoResp
    /\ IF DanglingTickets(r) # {}
       THEN Rollback(r, "PerformanceNotFound")
       ELSE /\ reservations' = reservations \cup {[id |-> r, user |-> user[r]]}
            /\ tickets' = tickets \cup txTickets[r]
            /\ txRes' = [txRes EXCEPT ![r] = FALSE]
            /\ txTickets' = [txTickets EXCEPT ![r] = {}]
            /\ pc' = [pc EXCEPT ![r] = "done"]
            /\ result' = [result EXCEPT ![r] = "ok"]
            /\ UNCHANGED errors
    /\ UNCHANGED <<halls, plays, performances, user, batch, idx, errs, snap, ops, valVars>>

(* ---------------------------------------------------------------------- *)
(* theatre/views.py: catalog writes (admin) and the performance listing    *)
(* ---------------------------------------------------------------------- *)

Exists(table, id) == table[id] # NoRow

(* The same collection with on_delete=DO_NOTHING: no ticket goes along. *)
TicketsOf_none(ps) == {}

(* on_delete=CASCADE: the tickets that go with a set of performances.      *)
TicketsOf(ps) == {t \in tickets : t.performance \in ps}

CatalogFrame ==
    /\ ops < MaxCatalogOps
    /\ ops' = ops + 1
    /\ listing' = NoListing /\ resp' = NoResp
    /\ UNCHANGED <<reqVars, valVars>>

(* TheatreHallSerializer: rows and seats_in_row are integer fields that    *)
(* take their lower limit, 0, from PositiveIntegerField.                   *)
TheatreHallSerializer_validate(rs, ss) == 0 <= rs /\ 0 <= ss

(* PUT theatre_halls/<h>/ *)
UpdateHall(h, rs, ss) ==
    /\ Exists(halls, h)
    /\ TheatreHallSerializer_validate(rs, ss)
    /\ halls' = [halls EXCEPT ![h] = [rows |-> rs, seats_in_row |-> ss]]
    /\ CatalogFrame
    /\ UNCHANGED <<plays, performances, reservations, tickets>>

(* PUT performances/<p>/ *)
UpdatePerformance(p, pl, h) ==
    /\ Exists(performances, p)
    /\ Exists(plays, pl)
    /\ Exists(halls, h)
    /\ performances' = [performances EXCEPT ![p] = [play |-> pl, theatre_hall |-> h]]
    /\ CatalogFrame
    /\ UNCHANGED <<halls, plays, reservations, tickets>>

(* The delete collects the committed tickets of the performances and      *)
(* removes them with the performances.                                     *)
DeletePerformances(ps) ==
    /\ performances' = [p \in PerfIds |-> IF p \in ps THEN NoRow ELSE performances[p]]
    /\ tickets' = tickets \ TicketsOf(ps)
    /\ UNCHANGED reservations

(* DELETE performances/<p>/ *)
DeletePerformance(p) ==
    /\ Exists(performances, p)
    /\ DeletePerformances({p})
    /\ CatalogFrame
    /\ UNCHANGED <<halls, plays>>

(* DELETE theatre_halls/<h>/ *)
DeleteHall(h) ==
    /\ Exists(halls, h)
    /\ DeletePerformances({p \in PerfIds :
            Exists(performances, p) /\ performances[p].theatre_hall = h})
    /\ halls' = [halls EXCEPT ![h] = NoRow]
    /\ CatalogFrame
    /\ UNCHANGED plays

(* DELETE plays/<pl>/ *)
DeletePlay(pl) ==
    /\ Exists(plays, pl)
    /\ DeletePerformances({p \in PerfIds :
            Exists(performances, p) /\ performances[p].play = pl})
    /\ plays' = [plays EXCEPT ![pl] = NoRow]
    /\ CatalogFrame
    /\ UNCHANGED halls

(* on_delete=CASCADE: the tickets that go with a reservation. *)
TicketsOfReservation(id) == {t \in tickets : t.reservation = id}

(* The admin site deletes a Reservation (theatre/admin.py registers the     *)
(* model): the delete collects its tickets and removes them with it.       *)
DeleteReservation(id) ==
    /\ \E res \in reservations : res.id = id
    /\ reservations' = {res \in reservations : res.id # id}
    /\ tickets' = tickets \ TicketsOfReservation(id)
    /\ CatalogFrame
    /\ UNCHANGED <<halls, plays, performances>>

(* PerformanceViewSet.get_queryset for "list": performance joined to its   *)
(* hall and LEFT OUTER JOINed to tickets, grouped by performance.          *)
JoinRows ==
    {[performance |-> p, ticket |-> t] :
        p \in {q \in PerfIds : Exists(performances, q)}, t \in tickets \cup {NoRow}}

QueryRows ==
    {j \in JoinRows :
        \/ j.ticket # NoRow /\ j.ticket.performance = j.performance
        \/ j.ticket = NoRow /\ TicketsOf({j.performance}) = {}}

(* A count of every joined row of the group, NULL tickets included. *)
CountTickets_star(p) ==
    Cardinality({j \in QueryRows : j.performance = p})

(* Count("tickets") counts the joined rows whose ticket is not NULL. *)
CountTickets(p) ==
    Cardinality({j \in QueryRows : j.performance = p /\ j.ticket # NoRow})

available_tickets(p) ==
    halls[performances[p].theatre_hall].rows
        * halls[performances[p].theatre_hall].seats_in_row
    - CountTickets(p)

(* GET performances/ *)
ListPerformances ==
    /\ listing = NoListing
    /\ resp' = NoResp
    /\ listing' = [served |-> TRUE,
                   rows |-> {[id |-> p, available_tickets |-> available_tickets(p)] :
                                p \in {q \in PerfIds : Exists(performances, q)}}]
    /\ UNCHANGED <<dbVars, reqVars, ops, valVars>>

(* ---------------------------------------------------------------------- *)
(* Callers and permissions (theatre/permissions.py, theatre/views.py)      *)
(* ---------------------------------------------------------------------- *)

AnonymousUser == "anonymous"
Staff == {"admin"}
Callers == Users \cup Staff \cup {AnonymousUser}

is_authenticated(u) == u # AnonymousUser
is_staff(u) == u \in Staff

SAFE_METHODS == {"GET", "HEAD", "OPTIONS"}

(* rest_framework.permissions.IsAdminUser *)
IsAdminUser(u, method) == is_authenticated(u) /\ is_staff(u)

(* rest_framework.permissions.IsAuthenticated *)
IsAuthenticated(u, method) == is_authenticated(u)

(* theatre.permissions.ReadOnly, imported by theatre/views.py *)
ReadOnly(u, method) == method \in SAFE_METHODS

IsAdminOrIfAuthenticatedReadOnly(u, method) ==
    /\ is_authenticated(u)
    /\ (method \in SAFE_METHODS \/ is_staff(u))

has_permission(permission_class, u, method) ==
    CASE permission_class = "IsAdminUser" -> IsAdminUser(u, method)
      [] permission_class = "IsAuthenticated" -> IsAuthenticated(u, method)
      [] permission_class = "IsAdminUser | ReadOnly" ->
            IsAdminUser(u, method) \/ ReadOnly(u, method)
      [] permission_class = "IsAdminOrIfAuthenticatedReadOnly" ->
            IsAdminOrIfAuthenticatedReadOnly(u, method)

(* The viewsets in the order of router.register. *)
registry ==
    <<"actors", "genres", "plays", "theatre_halls", "performances", "reservations">>

(* Plays and performances given the permission class of the halls. *)
permission_classes_of_halls(viewset) ==
    CASE viewset \in {"actors", "genres"} -> <<"IsAdminUser">>
      [] viewset \in {"plays", "performances", "theatre_halls"} ->
            <<"IsAdminOrIfAuthenticatedReadOnly">>
      [] viewset = "reservations" -> <<"IsAuthenticated">>

(* permission_classes of each viewset *)
permission_classes(viewset) ==
    CASE viewset \in {"actors", "genres"} -> <<"IsAdminUser">>
      [] viewset \in {"plays", "performances"} -> <<"IsAdminUser | ReadOnly">>
      [] viewset = "theatre_halls" -> <<"IsAdminOrIfAuthenticatedReadOnly">>
      [] viewset = "reservations" -> <<"IsAuthenticated">>

(* APIView.check_permissions: every permission class has to grant. *)
check_permissions(viewset, u, method) ==
    \A i \in 1..Len(permission_classes(viewset)) :
        has_permission(permission_classes(viewset)[i], u, method)

(* APIView.permission_denied: a caller who is not authenticated is asked   *)
(* to authenticate, an authenticated one is refused.                       *)
permission_denied(u) == IF is_authenticated(u) THEN "403" ELSE "401"

(* The response of the step. *)
Response(view, action, u, status, body) ==
    /\ resp' = [served |-> TRUE, view |-> view, action |-> action,
                user |-> u, status |-> status, body |-> body]
    /\ listing' = NoListing

(* ---------------------------------------------------------------------- *)
(* GET reservations/                                                        *)
(* ---------------------------------------------------------------------- *)

(* The queryset without the filter on the user. *)
ReservationViewSet_get_queryset_all(u) == reservations

(* ReservationViewSet.get_queryset: queryset.filter(user=request.user) *)
ReservationViewSet_get_queryset(u) == {res \in reservations : res.user = u}

(* ReservationListSerializer: the reservation with its tickets. *)
ReservationListSerializer(res) ==
    [id |-> res.id,
     tickets |-> {[row |-> t.row, seat |-> t.seat, performance |-> t.performance] :
                     t \in TicketsOfReservation(res.id)}]

ListReservations(u) ==
    /\ IF check_permissions("reservations", u, "GET")
       THEN Response("reservations", "list", u, "200",
                {ReservationListSerializer(res) :
                    res \in ReservationViewSet_get_queryset(u)})
       ELSE Response("reservations", "list", u, permission_denied(u), {})
    /\ UNCHANGED <<dbVars, reqVars, ops, valVars>>

(* ---------------------------------------------------------------------- *)
(* plays/ and performances/ as called by any caller                         *)
(* ---------------------------------------------------------------------- *)

CatalogViews == {"plays", "performances"}

(* The HTTP method a viewset action is routed from. *)
http_method(action) ==
    CASE action \in {"list", "retrieve"} -> "GET"
      [] action = "create" -> "POST"
      [] action = "update" -> "PUT"
      [] action = "destroy" -> "DELETE"

Table(viewset) == IF viewset = "plays" THEN plays ELSE performances
Ids(viewset) == IF viewset = "plays" THEN PlayIds ELSE PerfIds

(* The request bodies a caller sends to plays/ and to performances/. *)
Forms(viewset) ==
    IF viewset = "plays" THEN {SeedPlay(pl) : pl \in PlayIds}
    ELSE [play : PlayIds, theatre_hall : HallIds]

(* PlaySerializer / PerformanceSerializer: a related field has to name a   *)
(* stored row.                                                             *)
is_valid(viewset, form) ==
    viewset = "performances" =>
        (Exists(plays, form.play) /\ Exists(halls, form.theatre_hall))

(* serializer.save() *)
Save(viewset, id, form) ==
    IF viewset = "plays"
    THEN /\ plays' = [plays EXCEPT ![id] = form]
         /\ UNCHANGED <<halls, performances, reservations, tickets>>
    ELSE /\ performances' = [performances EXCEPT ![id] = form]
         /\ UNCHANGED <<halls, plays, reservations, tickets>>

(* instance.delete(), with what on_delete=CASCADE takes along *)
Delete(viewset, id) ==
    IF viewset = "plays"
    THEN /\ DeletePerformances({p \in PerfIds :
                Exists(performances, p) /\ performances[p].play = id})
         /\ plays' = [plays EXCEPT ![id] = NoRow]
         /\ UNCHANGED halls
    ELSE /\ DeletePerformances({id})
         /\ UNCHANGED <<halls, plays>>

(* The body that shows one stored row. *)
Shown(viewset, table, id) == {[id |-> id, fields |-> table[id]]}

ViewSetList(u, viewset) ==
    /\ IF ~check_permissions(viewset, u, http_method("list"))
       THEN Response(viewset, "list", u, permission_denied(u), {})
       ELSE Response(viewset, "list", u, "200",
                UNION {Shown(viewset, Table(viewset), id) :
                          id \in {i \in Ids(viewset) : Exists(Table(viewset), i)}})
    /\ UNCHANGED <<dbVars, reqVars, ops, valVars>>

ViewSetRetrieve(u, viewset, id) ==
    /\ IF ~check_permissions(viewset, u, http_method("retrieve"))
       THEN Response(viewset, "retrieve", u, permission_denied(u), {})
       ELSE IF ~Exists(Table(viewset), id)
       THEN Response(viewset, "retrieve", u, "404", {})
       ELSE Response(viewset, "retrieve", u, "200", Shown(viewset, Table(viewset), id))
    /\ UNCHANGED <<dbVars, reqVars, ops, valVars>>

(* POST: the new row takes the lowest id not in use. *)
ViewSetCreate(u, viewset, form) ==
    LET free == {i \in Ids(viewset) : ~Exists(Table(viewset), i)}
        id == CHOOSE i \in free : \A j \in free : i <= j
    IN  /\ free # {}
        /\ IF ~check_permissions(viewset, u, http_method("create"))
           THEN /\ Response(viewset, "create", u, permission_denied(u), {})
                /\ UNCHANGED dbVars
           ELSE IF ~is_valid(viewset, form)
           THEN /\ Response(viewset, "create", u, "400", {})
                /\ UNCHANGED dbVars
           ELSE /\ Save(viewset, id, form)
                /\ Response(viewset, "create", u, "201",
                       {[id |-> id, fields |-> form]})
        /\ UNCHANGED <<reqVars, ops, valVars>>

ViewSetUpdate(u, viewset, id, form) ==
    /\ IF ~check_permissions(viewset, u, http_method("update"))
       THEN /\ Response(viewset, "update", u, permission_denied(u), {})
            /\ UNCHANGED dbVars
       ELSE IF ~Exists(Table(viewset), id)
       THEN /\ Response(viewset, "update", u, "404", {})
            /\ UNCHANGED dbVars
       ELSE IF ~is_valid(viewset, form)
       THEN /\ Response(viewset, "update", u, "400", {})
            /\ UNCHANGED dbVars
       ELSE /\ Save(viewset, id, form)
            /\ Response(viewset, "update", u, "200", {[id |-> id, fields |-> form]})
    /\ UNCHANGED <<reqVars, ops, valVars>>

ViewSetDestroy(u, viewset, id) ==
    /\ IF ~check_permissions(viewset, u, http_method("destroy"))
       THEN /\ Response(viewset, "destroy", u, permission_denied(u), {})
            /\ UNCHANGED dbVars
       ELSE IF ~Exists(Table(viewset), id)
       THEN /\ Response(viewset, "destroy", u, "404", {})
            /\ UNCHANGED dbVars
       ELSE /\ Delete(viewset, id)
            /\ Response(viewset, "destroy", u, "204", {[id |-> id, fields |-> NoRow]})
    /\ UNCHANGED <<reqVars, ops, valVars>>

(* ---------------------------------------------------------------------- *)
(* The API root                                                             *)
(* ---------------------------------------------------------------------- *)

(* APIRootView.get_api_root_dict: the prefixes of the viewsets all of      *)
(* whose permission classes grant the request.  APIRootView is the root    *)
(* view of theatre.routers.Router.                                         *)
get_api_root_dict(u, method) ==
    {registry[i] : i \in {j \in 1..Len(registry) :
                            check_permissions(registry[j], u, method)}}

(* The root view of the router of theatre/urls.py, which is a              *)
(* DefaultRouter: the root of rest_framework, which lists the list route   *)
(* of every registered viewset.                                            *)
router_get_api_root_view(u, method) ==
    {registry[i] : i \in 1..Len(registry)}

(* GET api/theatre/ *)
GetApiRoot(u) ==
    /\ Response("root", "get", u, "200", router_get_api_root_view(u, "GET"))
    /\ UNCHANGED <<dbVars, reqVars, ops, valVars>>

(* ---------------------------------------------------------------------- *)
(* GET plays/?title=..&actors=..&genres=..                                  *)
(* ---------------------------------------------------------------------- *)

(* A string is a sequence of characters.  The characters of an id list:    *)
(* decimal digits, a letter, the superscript two (which str.isnumeric      *)
(* accepts and int refuses) and the comma.                                 *)
DecimalChars == {"1", "2"}
NumericChars == DecimalChars \cup {"SUPERSCRIPT TWO"}
ParamChars == NumericChars \cup {"x", ","}
TitleParams == {<<>>, <<"a">>, <<"B">>, <<"x">>}

(* str.split(sep) *)
RECURSIVE split(_, _)
split(str, sep) ==
    IF \A i \in 1..Len(str) : str[i] # sep THEN <<str>>
    ELSE LET k == CHOOSE i \in 1..Len(str) :
                     str[i] = sep /\ \A j \in 1..(i - 1) : str[j] # sep
         IN  <<SubSeq(str, 1, k - 1)>> \o split(SubSeq(str, k + 1, Len(str)), sep)

(* str.isnumeric(): not empty, and every character is numeric. *)
isnumeric(str) == Len(str) > 0 /\ \A i \in 1..Len(str) : str[i] \in NumericChars

(* int(str) raises ValueError unless the string is made of decimal digits. *)
int_raises(str) == Len(str) = 0 \/ \E i \in 1..Len(str) : str[i] \notin DecimalChars

RECURSIVE int(_)
int(str) ==
    IF Len(str) = 0 THEN 0
    ELSE 10 * int(SubSeq(str, 1, Len(str) - 1))
            + (IF str[Len(str)] = "1" THEN 1 ELSE 2)

(* PlayViewSet._params_to_ints: the numeric entries of the list, converted *)
(* in order; the conversion of an entry may raise.                         *)
params_to_ints(params) ==
    LET kept == SelectSeq(split(params, ","), isnumeric)
    IN  IF \E i \in 1..Len(kept) : int_raises(kept[i])
        THEN [raised |-> TRUE, ids |-> <<>>]
        ELSE [raised |-> FALSE, ids |-> [i \in 1..Len(kept) |-> int(kept[i])]]

lower(c) == IF c = "A" THEN "a" ELSE IF c = "B" THEN "b" ELSE c

(* title__icontains *)
icontains(str, sub) ==
    \E i \in 1..(Len(str) - Len(sub) + 1) :
        \A j \in 1..Len(sub) : lower(str[i + j - 1]) = lower(sub[j])

NoJoin == 0

(* The rows of the query of PlayViewSet.get_queryset before distinct():    *)
(* a filter on actors or on genres joins the play to the related rows it   *)
(* matches, one row of the result for each.                                *)
PlayRows(q) ==
    LET actor_ids == params_to_ints(q.actors).ids
        genre_ids == params_to_ints(q.genres).ids
        InList(id, ids) == \E i \in 1..Len(ids) : ids[i] = id
    IN  {row \in [play : PlayIds, actor : ActorIds \cup {NoJoin},
                  genre : GenreIds \cup {NoJoin}] :
            /\ Exists(plays, row.play)
            /\ (q.title # <<>> => icontains(plays[row.play].title, q.title))
            /\ IF q.actors = <<>> THEN row.actor = NoJoin
               ELSE row.actor \in plays[row.play].actors /\ InList(row.actor, actor_ids)
            /\ IF q.genres = <<>> THEN row.genre = NoJoin
               ELSE row.genre \in plays[row.play].genres /\ InList(row.genre, genre_ids)}

(* queryset.distinct(): one row for each play. *)
distinct(rows) == {[play |-> row.play, actor |-> NoJoin, genre |-> NoJoin] : row \in rows}

(* PlayViewSet.list: each play of the result with the number of times it   *)
(* is in it.  An exception of get_queryset is answered 500.                *)
PlayViewSet_list(u) ==
    /\ ~resp.served
    /\ IF ~check_permissions("plays", u, http_method("list"))
       THEN Response("plays", "list", u, permission_denied(u), {})
       ELSE IF \/ (query.actors # <<>> /\ params_to_ints(query.actors).raised)
               \/ (query.genres # <<>> /\ params_to_ints(query.genres).raised)
       THEN Response("plays", "list", u, "500", {})
       ELSE LET rows == distinct(PlayRows(query))
            IN  Response("plays", "list", u, "200",
                    {[id |-> pl, n |-> Cardinality({row \in rows : row.play = pl})] :
                        pl \in {row.play : row \in rows}})
    /\ UNCHANGED <<dbVars, reqVars, ops, valVars>>

(* ---------------------------------------------------------------------- *)
(* Specifications                                                           *)
(* ---------------------------------------------------------------------- *)

InitDb ==
    /\ halls = [h \in HallIds |->
                  IF h = 1 THEN [rows |-> MaxRow, seats_in_row |-> MaxSeat]
                  ELSE [rows |-> 1, seats_in_row |-> 1]]
    /\ plays = [pl \in PlayIds |-> SeedPlay(pl)]
    /\ performances = [p \in PerfIds |-> [play |-> 1, theatre_hall |-> p]]
    /\ reservations = {}
    /\ tickets = {}

InitReq ==
    /\ pc = [r \in Requests |-> "idle"]
    /\ user = [r \in Requests |-> "alice"]
    /\ batch = [r \in Requests |-> <<>>]
    /\ idx = [r \in Requests |-> 1]
    /\ errs = [r \in Requests |-> <<>>]
    /\ snap = [r \in Requests |-> <<>>]
    /\ txRes = [r \in Requests |-> FALSE]
    /\ txTickets = [r \in Requests |-> {}]
    /\ result = [r \in Requests |-> "none"]
    /\ errors = [r \in Requests |-> {}]

Init ==
    /\ InitDb
    /\ InitReq
    /\ listing = NoListing
    /\ ops = 0
    /\ vIn = <<0, 0, 0, 0>>
    /\ vOut = "ok"
    /\ query = NoQuery
    /\ resp = NoResp

(* Direct calls of Ticket.validate_ticket. *)
InitValidate ==
    /\ InitDb
    /\ InitReq
    /\ listing = NoListing
    /\ ops = 0
    /\ vIn \in (0..MaxRow + 1) \X (0..MaxSeat + 1) \X (0..MaxRow) \X (0..MaxSeat)
    /\ vOut = "none"
    /\ query = NoQuery
    /\ resp = NoResp

CallValidateTicket ==
    /\ vOut = "none"
    /\ vOut' = validate_ticket(vIn[1], vIn[2], [rows |-> vIn[3], seats_in_row |-> vIn[4]])
    /\ UNCHANGED <<dbVars, reqVars, listing, ops, vIn, query, resp>>

Handle(r) ==
    \/ Validate(r)
    \/ CreateReservation(r)
    \/ FullClean(r)
    \/ Insert(r)
    \/ Commit(r)

Booking ==
    \/ \E r \in Requests, u \in Users, b \in Batches : Submit(r, u, b)
    \/ \E r \in Requests : Handle(r)
    \/ \E r \in Requests : DeadlockAbort(r)

Catalog ==
    \/ \E h \in HallIds, rs \in -1..MaxRow, ss \in -1..MaxSeat : UpdateHall(h, rs, ss)
    \/ \E p \in PerfIds, pl \in PlayIds, h \in HallIds : UpdatePerformance(p, pl, h)
    \/ \E p \in PerfIds : DeletePerformance(p)
    \/ \E h \in HallIds : DeleteHall(h)
    \/ \E pl \in PlayIds : DeletePlay(pl)
    \/ \E id \in Requests : DeleteReservation(id)
    \/ ListPerformances

Next ==
    \/ \E r \in Requests, u \in Users, b \in ShortBatches : Submit(r, u, b)
    \/ \E r \in Requests : Handle(r)
    \/ Catalog

(* Reservation requests, catalog writes and listings, interleaved.  With   *)
(* one ticket per request no wait cycle can form.                          *)
Spec == Init /\ [][Next]_vars

(* Reservation requests of two users and the reservation listing. *)
ReservationCalls ==
    \/ \E r \in Requests, u \in Users, b \in ShortBatches : Submit(r, u, b)
    \/ \E r \in Requests : Handle(r)
    \/ \E u \in Callers : ListReservations(u)

SpecReservations == Init /\ [][ReservationCalls]_vars

(* Calls of plays/, performances/ and the API root by every kind of caller. *)
Access ==
    \/ \E u \in Callers, v \in CatalogViews : ViewSetList(u, v)
    \/ \E u \in Callers, v \in CatalogViews, id \in PlayIds \cup PerfIds :
            id \in Ids(v) /\ ViewSetRetrieve(u, v, id)
    \/ \E u \in Callers, v \in CatalogViews : \E form \in Forms(v) :
            ViewSetCreate(u, v, form)
    \/ \E u \in Callers, v \in CatalogViews, id \in PlayIds \cup PerfIds :
            id \in Ids(v) /\ \E form \in Forms(v) : ViewSetUpdate(u, v, id, form)
    \/ \E u \in Callers, v \in CatalogViews, id \in PlayIds \cup PerfIds :
            id \in Ids(v) /\ ViewSetDestroy(u, v, id)
    \/ \E u \in Callers : GetApiRoot(u)

SpecAccess == Init /\ [][Access]_vars

(* The plays listing, called with every query of the bounded alphabet. *)
InitPlays ==
    /\ InitDb
    /\ InitReq
    /\ listing = NoListing
    /\ ops = 0
    /\ vIn = <<0, 0, 0, 0>>
    /\ vOut = "ok"
    /\ query \in [title : TitleParams,
                  actors : SeqsUpTo(ParamChars, MaxParamLen),
                  genres : SeqsUpTo(ParamChars, MaxParamLen)]
    /\ resp = NoResp

SpecPlays == InitPlays /\ [][\E u \in Callers : PlayViewSet_list(u)]_vars

(* Concurrent reservation requests with longer ticket lists. *)
SpecBooking == Init /\ [][Booking]_vars

SpecValidate == InitValidate /\ [][CallValidateTicket]_vars

(* ---------------------------------------------------------------------- *)
(* Properties                                                               *)
(* ---------------------------------------------------------------------- *)

PassedValidation(r) ==
    /\ Len(batch[r]) > 0
    /\ Len(errs[r]) = Len(batch[r])
    /\ ListErrors(errs[r]) = {}

RowsOf(r) == {t \in tickets : t.reservation = r}

(* C1: no two persisted tickets have the same (performance, row, seat). *)
C1_NoDoubleBooking ==
    \A t1 \in tickets : \A t2 \in tickets :
        (t1.performance = t2.performance /\ t1.row = t2.row /\ t1.seat = t2.seat)
            => t1 = t2

(* Two requests named the same seat while both ran; one holds it, the      *)
(* other was refused inside its transaction.                               *)
C1_Witness ==
    \E a \in Requests : \E b \in Requests \ {a} :
        /\ result[a] = "ok"
        /\ result[b] = "error"
        /\ PassedValidation(b)
        /\ errors[b] = {"SeatAlreadyTaken"}
        /\ \E t \in RowsOf(a) : \E i \in 1..Len(batch[b]) :
               /\ t.performance = batch[b][i].performance
               /\ t.row = batch[b][i].row
               /\ t.seat = batch[b][i].seat

(* C2: a reservation request that failed has left no Reservation row and   *)
(* no Ticket row, committed or pending.                                    *)
C2_AllOrNothing ==
    \A r \in Requests :
        (pc[r] = "done" /\ result[r] # "ok") =>
            /\ result[r] = "error"
            /\ ~\E res \in reservations : res.id = r
            /\ RowsOf(r) = {}
            /\ ~txRes[r]
            /\ txTickets[r] = {}

(* A request failed on its second ticket, after its first was inserted.    *)
C2_Witness ==
    \E r \in Requests :
        /\ pc[r] = "done"
        /\ result[r] = "error"
        /\ PassedValidation(r)
        /\ idx[r] = 2

SeatOf(x) == <<x.performance, x.row, x.seat>>

SeatsAsked(r) == {SeatOf(batch[r][i]) : i \in 1..Len(batch[r])}

(* Every ticket the request asks for lies inside its hall as it stands. *)
AllInRange(r) ==
    \A i \in 1..Len(batch[r]) :
        /\ performances[batch[r][i].performance] # NoRow
        /\ batch[r][i].row <= halls[performances[batch[r][i].performance].theatre_hall].rows
        /\ batch[r][i].seat
              <= halls[performances[batch[r][i].performance].theatre_hall].seats_in_row

(* C3: of two reservation requests that ask for the same seat (and for     *)
(* nothing out of range), at most one commits, and one that does not has   *)
(* failed with SeatAlreadyTaken and has left no row.                       *)
C3_LoserSeatAlreadyTaken ==
    \A a \in Requests : \A b \in Requests \ {a} :
        (/\ pc[a] = "done" /\ pc[b] = "done"
         /\ SeatsAsked(a) \cap SeatsAsked(b) # {}
         /\ AllInRange(a) /\ AllInRange(b)) =>
            /\ ~(result[a] = "ok" /\ result[b] = "ok")
            /\ result[b] # "ok" =>
                  /\ errors[b] = {"SeatAlreadyTaken"}
                  /\ RowsOf(b) = {}
                  /\ ~\E res \in reservations : res.id = b

(* C4: the step in which a reservation request succeeds adds one           *)
(* Reservation row owned by the caller and one Ticket row per requested    *)
(* ticket, bound to it and carrying the requested row, seat and            *)
(* performance; no step of a request changes the committed rows otherwise. *)
C4_SuccessFrame ==
    [][ /\ \A r \in Requests :
             (result[r] # "ok" /\ result'[r] = "ok") =>
                /\ ~\E res \in reservations : res.id = r
                /\ reservations' = reservations \cup {[id |-> r, user |-> user[r]]}
                /\ tickets \cap {[row |-> batch[r][i].row, seat |-> batch[r][i].seat,
                                   performance |-> batch[r][i].performance,
                                   reservation |-> r] : i \in 1..Len(batch[r])} = {}
                /\ tickets' = tickets \cup
                        {[row |-> batch[r][i].row, seat |-> batch[r][i].seat,
                          performance |-> batch[r][i].performance,
                          reservation |-> r] : i \in 1..Len(batch[r])}
                /\ Cardinality(tickets') = Cardinality(tickets) + Len(batch[r])
                /\ Len(batch[r]) >= 1
        /\ (\A r \in Requests : ~(result[r] # "ok" /\ result'[r] = "ok")) =>
                /\ reservations' = reservations
                /\ tickets' = tickets
      ]_vars

(* A request for two tickets has succeeded and its two tickets are stored. *)
C4_Witness ==
    \E r \in Requests :
        /\ result[r] = "ok"
        /\ Len(batch[r]) = 2
        /\ Cardinality(RowsOf(r)) = 2
        /\ [id |-> r, user |-> user[r]] \in reservations

C6_TicketsInHall ==
    \A t \in tickets :
        /\ performances[t.performance] # NoRow
        /\ 1 <= t.row
        /\ t.row <= halls[performances[t.performance].theatre_hall].rows
        /\ 1 <= t.seat
        /\ t.seat <= halls[performances[t.performance].theatre_hall].seats_in_row

(* C7: the performance listing gives, for every performance,               *)
(* rows * seats_in_row of its hall minus the number of tickets persisted   *)
(* for it when the listing is taken.                                       *)
C7_ListingFresh ==
    listing.served =>
        listing.rows =
            {[id |-> p,
              available_tickets |->
                  halls[performances[p].theatre_hall].rows
                      * halls[performances[p].theatre_hall].seats_in_row
                  - Cardinality({t \in tickets : t.performance = p})] :
                p \in {q \in PerfIds : performances[q] # NoRow}}

(* A listing taken after a reservation was committed: one performance has  *)
(* a seat less than its hall holds, another has none booked.               *)
C7_Witness ==
    /\ listing.served
    /\ \E r \in Requests : result[r] = "ok" /\ RowsOf(r) # {}
    /\ \E x \in listing.rows :
          x.available_tickets <
              halls[performances[x.id].theatre_hall].rows
                  * halls[performances[x.id].theatre_hall].seats_in_row
    /\ \E x \in listing.rows : \A t \in tickets : t.performance # x.id

(* C8: while a seat is held by a committed reservation, the validation of  *)
(* a request that names it records SeatAlreadyTaken; a request with that   *)
(* record opens no transaction, writes no row and ends with that error;    *)
(* and no step of a request removes or changes a committed row.            *)
C8_TakenSeatRefused ==
    [][ /\ \A r \in Requests :
             (/\ pc[r] = "validate"
              /\ errs'[r] # errs[r]
              /\ \E t \in tickets :
                    /\ t.performance = batch[r][idx[r]].performance
                    /\ t.row = batch[r][idx[r]].row
                    /\ t.seat = batch[r][idx[r]].seat) =>
                 errs'[r] = Append(errs[r], "SeatAlreadyTaken")
        /\ \A r \in Requests :
             (\E i \in 1..Len(errs'[r]) : errs'[r][i] = "SeatAlreadyTaken") =>
                 /\ pc'[r] \in {"validate", "done"}
                 /\ ~txRes'[r]
                 /\ txTickets'[r] = {}
                 /\ ~\E res \in reservations' : res.id = r
                 /\ pc'[r] = "done" =>
                       /\ result'[r] = "error"
                       /\ "SeatAlreadyTaken" \in errors'[r]
        /\ reservations \subseteq reservations'
        /\ tickets \subseteq tickets'
      ]_vars

(* User B was refused a seat that a committed reservation of user A holds, *)
(* and A's reservation and ticket are in place.                            *)
C8_Witness ==
    \E a \in Requests : \E b \in Requests \ {a} :
        /\ user[a] # user[b]
        /\ result[a] = "ok"
        /\ [id |-> a, user |-> user[a]] \in reservations
        /\ pc[b] = "done"
        /\ result[b] = "error"
        /\ "SeatAlreadyTaken" \in errors[b]
        /\ \E i \in 1..Len(errs[b]) :
              /\ errs[b][i] = "SeatAlreadyTaken"
              /\ \E t \in RowsOf(a) : SeatOf(t) = SeatOf(batch[b][i])

(* C9: a request with an empty ticket list never has a transaction open,   *)
(* never has a Reservation or Ticket row, pending or committed, and ends   *)
(* with EmptyRequest.                                                      *)
C9_EmptyRejected ==
    \A r \in Requests :
        (pc[r] # "idle" /\ Len(batch[r]) = 0) =>
            /\ pc[r] \in {"validate", "done"}
            /\ ~txRes[r]
            /\ txTickets[r] = {}
            /\ ~\E res \in reservations : res.id = r
            /\ RowsOf(r) = {}
            /\ pc[r] = "done" => (result[r] = "error" /\ errors[r] = {"EmptyRequest"})

(* A request with an empty list has been rejected. *)
C9_Witness ==
    \E r \in Requests :
        /\ Len(batch[r]) = 0
        /\ pc[r] = "done"
        /\ errors[r] = {"EmptyRequest"}

(* C10: every persisted reservation has at least one ticket, and the       *)
(* tickets of a persisted reservation never change.                        *)
C10_ReservationKeepsTickets ==
    [][ /\ \A res \in reservations' : \E t \in tickets' : t.reservation = res.id
        /\ \A res \in reservations :
              {t \in tickets' : t.reservation = res.id}
                  = {t \in tickets : t.reservation = res.id}
      ]_vars

(* C11: for every performance the number of persisted tickets is at most   *)
(* rows * seats_in_row of its hall, and no listing shows a negative number *)
(* of available tickets.                                                   *)
C11_WithinCapacity ==
    /\ \A p \in PerfIds :
          performances[p] # NoRow =>
              Cardinality({t \in tickets : t.performance = p})
                  <= halls[performances[p].theatre_hall].rows
                       * halls[performances[p].theatre_hall].seats_in_row
    /\ listing.served => \A x \in listing.rows : x.available_tickets >= 0

(* C14: every persisted theatre hall has rows >= 1 and seats_in_row >= 1.  *)
C14_HallsPositive ==
    \A h \in HallIds :
        halls[h] # NoRow => (halls[h].rows >= 1 /\ halls[h].seats_in_row >= 1)

(* C18: every persisted ticket references a persisted performance and a    *)
(* persisted reservation; a step that deletes a performance or a           *)
(* reservation leaves none of its tickets, so that no ticket holds a seat  *)
(* for it afterwards.                                                      *)
C18_NoDanglingTicket ==
    \A t \in tickets :
        /\ performances[t.performance] # NoRow
        /\ \E res \in reservations : res.id = t.reservation

(* A seat was booked, the reservation that held it was deleted, and the    *)
(* same seat was booked again by a later request.                          *)
C18_Witness ==
    \E a \in Requests : \E b \in Requests \ {a} :
        /\ result[a] = "ok"
        /\ ~\E res \in reservations : res.id = a
        /\ RowsOf(a) = {}
        /\ result[b] = "ok"
        /\ \E t \in RowsOf(b) : SeatOf(t) \in SeatsAsked(a)

(* The tickets of the first k entries of the list of request r. *)
FirstTickets(r, k) ==
    {[row |-> batch[r][i].row, seat |-> batch[r][i].seat,
      performance |-> batch[r][i].performance, reservation |-> r] : i \in 1..k}

(* C16 as claimed: the Reservation row is written before any entry is      *)
(* validated, entry k is persisted before entry k+1 is validated, and the  *)
(* failure reported is the failure of the first failing entry alone.       *)
C16_ValidatedInsideTransaction ==
    \A r \in Requests :
        /\ (Len(errs[r]) > 0 /\ pc[r] # "done") =>
              /\ txRes[r]
              /\ Len(errs[r]) <= Cardinality(txTickets[r]) + 1
        /\ (pc[r] = "done" /\ result[r] = "error" /\ Len(batch[r]) > 0) =>
              Cardinality(errors[r]) = 1

(* C16, amended: every entry is validated, in input order, before the      *)
(* Reservation row is written, and a list with a failing entry is refused  *)
(* there with the failures of all its failing entries and without a row.   *)
(* Inside the transaction the Reservation row comes first and entry k is   *)
(* checked again and persisted before entry k+1 is processed; a failure    *)
(* there is the failure of the first failing entry, all entries before it  *)
(* having been written.                                                    *)
C16_ValidatedThenOrdered ==
    [][ \A r \in Requests :
          /\ errs'[r] # errs[r] =>
                /\ pc[r] = "validate"
                /\ ~txRes[r] /\ ~txRes'[r]
                /\ idx[r] = Len(errs[r]) + 1
                /\ Len(errs'[r]) = idx[r]
          /\ txRes'[r] =>
                /\ Len(errs'[r]) = Len(batch'[r])
                /\ \A i \in 1..Len(errs'[r]) : errs'[r][i] = "ok"
          /\ (pc[r] = "validate" /\ pc'[r] = "done" /\ Len(batch[r]) > 0) =>
                /\ result'[r] = "error"
                /\ errors'[r] # {}
                /\ errors'[r] = {errs'[r][i] : i \in 1..Len(batch[r])} \ {"ok"}
          /\ pc'[r] \in {"clean", "insert"} =>
                /\ txRes'[r]
                /\ txTickets'[r] = FirstTickets(r, idx'[r] - 1)
          /\ pc'[r] = "commit" =>
                /\ txRes'[r]
                /\ txTickets'[r] = FirstTickets(r, Len(batch[r]))
          /\ (pc[r] \in {"clean", "insert"} /\ pc'[r] = "done") =>
                /\ result'[r] = "error"
                /\ Cardinality(errors'[r]) = 1
                /\ txTickets[r] = FirstTickets(r, idx[r] - 1)
      ]_vars

(* A list of two entries was refused before its transaction opened, with   *)
(* a different failure for each entry.                                     *)
C16_Witness ==
    \E r \in Requests :
        /\ pc[r] = "done"
        /\ result[r] = "error"
        /\ Len(errs[r]) = 2
        /\ errs[r][1] # "ok" /\ errs[r][2] # "ok" /\ errs[r][1] # errs[r][2]
        /\ errors[r] = {errs[r][1], errs[r][2]}

(* C17: the reservation listing served to a user is exactly the            *)
(* reservations whose owner is that user, each with its tickets; no entry  *)
(* of it belongs to another user; and a step in which reservations of      *)
(* other users appear leaves what the user is served unchanged.            *)
C17_OwnReservationsOnly ==
    [][ /\ (resp'.served /\ resp'.view = "reservations" /\ resp'.status = "200") =>
              /\ resp'.body =
                    {[id |-> res.id,
                      tickets |-> {[row |-> t.row, seat |-> t.seat,
                                    performance |-> t.performance] :
                                      t \in {x \in tickets' : x.reservation = res.id}}] :
                        res \in {y \in reservations' : y.user = resp'.user}}
              /\ \A x \in resp'.body : \A res \in reservations' :
                    res.id = x.id => res.user = resp'.user
        /\ \A u \in Users :
              (/\ reservations \subseteq reservations'
               /\ \A res \in reservations' \ reservations : res.user # u) =>
                 {[id |-> res.id,
                   tickets |-> {t \in tickets' : t.reservation = res.id}] :
                     res \in {y \in reservations' : y.user = u}}
                 = {[id |-> res.id,
                     tickets |-> {t \in tickets : t.reservation = res.id}] :
                       res \in {y \in reservations : y.user = u}}
      ]_vars

(* A user with a reservation is served it while another user holds a       *)
(* reservation too.                                                        *)
C17_Witness ==
    /\ resp.served /\ resp.view = "reservations" /\ resp.status = "200"
    /\ resp.body # {}
    /\ \E res \in reservations : res.user # resp.user
    /\ \E t \in tickets : \E res \in reservations :
          res.id = t.reservation /\ res.user # resp.user

(* C12: on plays/ and performances/, list and retrieve are refused to no   *)
(* caller and list shows the stored rows; create, update and delete are    *)
(* answered 401 to an anonymous caller and 403 to an authenticated caller  *)
(* who is not staff, and leave the stored plays and performances           *)
(* unchanged; for a staff caller they are not refused and, when they       *)
(* succeed, the stored row is the one the response shows; and no step      *)
(* changes the stored plays or performances for any other caller.          *)
C12_CatalogAccess ==
    [][ /\ (resp'.served /\ resp'.view \in CatalogViews) =>
              /\ resp'.action \in {"list", "retrieve"} =>
                    /\ resp'.status \in {"200", "404"}
                    /\ plays' = plays /\ performances' = performances
                    /\ resp'.action = "list" =>
                          /\ resp'.status = "200"
                          /\ resp'.body =
                                {[id |-> id,
                                  fields |-> IF resp'.view = "plays"
                                             THEN plays[id] ELSE performances[id]] :
                                    id \in {i \in IF resp'.view = "plays"
                                                  THEN PlayIds ELSE PerfIds :
                                              IF resp'.view = "plays"
                                              THEN plays[i] # NoRow
                                              ELSE performances[i] # NoRow}}
              /\ resp'.action \in {"create", "update", "destroy"} =>
                    /\ resp'.user = AnonymousUser =>
                          /\ resp'.status = "401"
                          /\ plays' = plays /\ performances' = performances
                    /\ resp'.user \in Users =>
                          /\ resp'.status = "403"
                          /\ plays' = plays /\ performances' = performances
                    /\ resp'.user \in Staff =>
                          /\ resp'.status \in {"200", "201", "204", "400", "404"}
                          /\ resp'.status \in {"200", "201", "204"} =>
                                /\ resp'.body # {}
                                /\ \A x \in resp'.body :
                                      IF resp'.view = "plays"
                                      THEN plays'[x.id] = x.fields
                                      ELSE performances'[x.id] = x.fields
        /\ (plays' # plays \/ performances' # performances) =>
              /\ resp'.served
              /\ resp'.user \in Staff
              /\ resp'.action \in {"create", "update", "destroy"}
      ]_vars

(* After a staff caller deleted a play, the delete of another play by an   *)
(* authenticated caller who is not staff is refused and the play stays.    *)
C12_Witness ==
    /\ resp.served /\ resp.view = "plays" /\ resp.action = "destroy"
    /\ resp.user \in Users
    /\ resp.status = "403"
    /\ \E pl \in PlayIds : plays[pl] = NoRow
    /\ \E pl \in PlayIds : plays[pl] # NoRow

(* C13: the API root lists an endpoint if and only if every permission     *)
(* class of its viewset grants the caller the GET request.                 *)
C13_RootListsPermitted ==
    (resp.served /\ resp.view = "root") =>
        \A i \in 1..Len(registry) :
            registry[i] \in resp.body <=>
                (\A k \in 1..Len(permission_classes(registry[i])) :
                    has_permission(permission_classes(registry[i])[k], resp.user, "GET"))

(* The entries of an id list that are numeric. *)
NumericEntries(params) ==
    {e \in {split(params, ",")[i] : i \in 1..Len(split(params, ","))} :
        Len(e) > 0 /\ \A i \in 1..Len(e) : e[i] \in NumericChars}

(* No id list is given, or one of its numeric entries is the id of one of  *)
(* the related rows.                                                       *)
MatchesList(related, params) ==
    params = <<>> \/
    \E e \in NumericEntries(params) :
        (\A i \in 1..Len(e) : e[i] \in DecimalChars) /\ int(e) \in related

(* C15: the plays listing answers with exactly the stored plays whose      *)
(* title contains the title given and that are related to one of the       *)
(* numeric ids of the actors list and to one of the numeric ids of the     *)
(* genres list, each of them once.                                         *)
C15_FilterPlays ==
    (resp.served /\ resp.view = "plays" /\ resp.action = "list") =>
        /\ resp.status = "200"
        /\ resp.body =
              {[id |-> pl, n |-> 1] :
                  pl \in {p \in PlayIds :
                            /\ plays[p] # NoRow
                            /\ (query.title = <<>>
                                   \/ icontains(plays[p].title, query.title))
                            /\ MatchesList(plays[p].actors, query.actors)
                            /\ MatchesList(plays[p].genres, query.genres)}}

====
